---------------------------- MODULE Spec2Model ----------------------------
(***************************************************************************)
(* Task persistence layer of the console task application: the Task        *)
(* entity and its process-wide id counter, the delimited-row codec         *)
(* (toCsvRow / fromCsvRow / parseCsvRow), the TaskManager collection and   *)
(* FileService (saveTasks, loadTasks, deleteSaveFile, backup).             *)
(*                                                                         *)
(* A JavaScript string is a sequence of one-character strings.  A number   *)
(* that can be NaN (parseInt, the time value of a Date) is an integer or   *)
(* the value NaN; an absent completedAt is the value Undefined.            *)
(***************************************************************************)
EXTENDS Integers, Sequences, FiniteSets, TLC

VARIABLES
    nextId,     \* Task.nextId, the process-wide id counter
    tasks,      \* TaskManager.tasks, the collection (a sequence of Tasks)
    now,        \* the system clock read by new Date(), in milliseconds
    produced,   \* history: <<id, how>> of every Task object produced, in order
    file,       \* text of the save file, or NoFile
    loaded,     \* array returned by the last loadTasks
    errors,     \* row errors collected by the last loadTasks
    pc,         \* position of the scenario being run
    row,        \* row text handed to / produced by the codec
    src,        \* Task handed to toCsvRow
    fields,     \* fields the last parseCsvRow returned
    dec,        \* outcome of the last fromCsvRow
    arr,        \* the array the caller holds: returned by a query, or built by the caller
    origin,     \* where arr came from: "caller", or the query that returned it
    shared,     \* TRUE when arr and TaskManager.tasks are one and the same array object
    call,       \* the last call observed: operation, arguments, result, collection before
    backups     \* the copies of the save file made by backup

vars == <<nextId, tasks, now, produced, file, loaded, errors, pc, row, src, fields, dec,
          arr, origin, shared, call, backups>>

---------------------------------------------------------------------------
(* Bounds of the model                                                     *)

MaxRowLen == 7      \* raw rows handed to the codec have at most this many characters
MaxStrLen == 2      \* titles and descriptions of encoded tasks have at most this many characters
MaxTime == 1        \* the clock runs from 0 to MaxTime
MaxProduced == 2    \* Task objects produced (created or decoded) in one run
MaxLines == 2       \* lines of a save file written by another tool
MaxDescLen == 1     \* descriptions of encoded tasks have at most this many characters

---------------------------------------------------------------------------
(* Characters and JavaScript values                                        *)

QUOTE == "\""
SEMI == ";"
SPACE == " "
NL == "\n"
EOR == "undefined"      \* csvRow[i + 1] past the end of the row
NaN == -1               \* parseInt of a non-number; time value of an Invalid Date
Undefined == -2         \* an absent optional field (completedAt)
NoFile == <<"ENOENT">>  \* readFile fails with code ENOENT

WhiteSpace == {" ", "\t", "\n", "\r"}
Digits == <<"0", "1", "2", "3", "4", "5", "6", "7", "8", "9">>

Str(n) == Digits[n + 1]

IsDigit(c) == \E k \in 1..10 : Digits[k] = c

DigitVal(c) == (CHOOSE k \in 1..10 : Digits[k] = c) - 1

RECURSIVE NatToString(_)
NatToString(n) ==
    IF n < 10 THEN <<Str(n)>> ELSE NatToString(n \div 10) \o <<Str(n % 10)>>

\* Number.prototype.toString
NumToString(n) == IF n = NaN THEN <<"N", "a", "N">> ELSE NatToString(n)

\* Boolean.prototype.toString
BoolToString(b) == IF b THEN <<"t", "r", "u", "e">> ELSE <<"f", "a", "l", "s", "e">>

RECURSIVE DigitsValue(_, _)
DigitsValue(s, acc) ==
    IF s = <<>> \/ ~IsDigit(Head(s)) THEN acc
    ELSE DigitsValue(Tail(s), 10 * acc + DigitVal(Head(s)))

SetMin(S) == CHOOSE x \in S : \A y \in S : x <= y

SetMax(S) == CHOOSE x \in S : \A y \in S : y <= x

\* positions of the characters of s that are not white space
Inked(s) == {i \in 1..Len(s) : s[i] \notin WhiteSpace}

\* String.prototype.trimStart
TrimStart(s) == IF Inked(s) = {} THEN <<>> ELSE SubSeq(s, SetMin(Inked(s)), Len(s))

\* String.prototype.trim
Trim(s) == IF Inked(s) = {} THEN <<>> ELSE SubSeq(s, SetMin(Inked(s)), SetMax(Inked(s)))

\* parseInt(s): leading white space is skipped, then the longest prefix of
\* decimal digits is read; NaN when there is none.  (Rows of the model hold no
\* sign and no 0x prefix.)
ParseInt(s) ==
    LET t == TrimStart(s)
    IN  IF t = <<>> \/ ~IsDigit(Head(t)) THEN NaN ELSE DigitsValue(t, 0)

\* String.prototype.includes
Includes(s, sub) ==
    \E i \in 0..(Len(s) - Len(sub)) : SubSeq(s, i + 1, i + Len(sub)) = sub

\* String.prototype.split(sep) for a one-character separator: the pieces
\* between consecutive occurrences of sep
SplitOn(s, sep) ==
    LET at == {i \in 1..Len(s) : s[i] = sep}
        pos(k) == CHOOSE i \in at : Cardinality({j \in at : j <= i}) = k
        first(k) == IF k = 1 THEN 1 ELSE pos(k - 1) + 1
        last(k) == IF k = Cardinality(at) + 1 THEN Len(s) ELSE pos(k) - 1
    IN  [k \in 1..(Cardinality(at) + 1) |-> SubSeq(s, first(k), last(k))]

\* Array.prototype.join(sep)
RECURSIVE Join(_, _)
Join(parts, sep) ==
    IF parts = <<>> THEN <<>>
    ELSE IF Len(parts) = 1 THEN parts[1]
    ELSE parts[1] \o sep \o Join(Tail(parts), sep)

\* String.prototype.replace(/"/g, '""')
\* quotes left as they are
DoubleQuotesNot(s) == s

RECURSIVE DoubleQuotes(_)
DoubleQuotes(s) ==
    IF s = <<>> THEN <<>>
    ELSE (IF Head(s) = QUOTE THEN <<QUOTE, QUOTE>> ELSE <<Head(s)>>) \o DoubleQuotes(Tail(s))

---------------------------------------------------------------------------
(* Dates: a Date is its time value in milliseconds, or NaN (Invalid Date). *)
(* The clock of the model stays within the first second of the epoch.      *)

IsoPrefix ==
    <<"1", "9", "7", "0", "-", "0", "1", "-", "0", "1", "T",
      "0", "0", ":", "0", "0", ":", "0", "0", ".">>

\* Date.prototype.toISOString of a valid date t (0 <= t < 1000)
ToISOString(t) ==
    IsoPrefix \o <<Str(t \div 100), Str((t \div 10) % 10), Str(t % 10), "Z">>

\* new Date(s) for a string: the time value of an ISO-8601 string, NaN for
\* text the date parser does not recognise.
ParseDate(s) ==
    IF /\ Len(s) = 24
       /\ SubSeq(s, 1, 20) = IsoPrefix
       /\ \A k \in 21..23 : IsDigit(s[k])
       /\ s[24] = "Z"
    THEN DigitsValue(SubSeq(s, 21, 23), 0)
    ELSE NaN

---------------------------------------------------------------------------
(* Task entity                                                             *)

\* new Task(title, description) when the counter is `id` and the two
\* new Date() calls read t1 and t2
NewTask(id, title, description, t1, t2) ==
    [id |-> id, title |-> title, description |-> description,
     completed |-> FALSE, createdAt |-> t1, updatedAt |-> t2,
     completedAt |-> Undefined]

\* Task.markAsCompleted, its two new Date() calls reading t1 and t2
MarkAsCompleted(t, t1, t2) ==
    [t EXCEPT !.completed = TRUE, !.completedAt = t1, !.updatedAt = t2]

\* Task.markAsIncomplete
MarkAsIncomplete(t, t1) ==
    [t EXCEPT !.completed = FALSE, !.completedAt = Undefined, !.updatedAt = t1]

\* Task.getCsvHeaders
CsvHeaders ==
    <<"i", "d", ";", "t", "i", "t", "l", "e", ";",
      "d", "e", "s", "c", "r", "i", "p", "t", "i", "o", "n", ";",
      "c", "o", "m", "p", "l", "e", "t", "e", "d", ";",
      "c", "r", "e", "a", "t", "e", "d", "A", "t", ";",
      "u", "p", "d", "a", "t", "e", "d", "A", "t", ";",
      "c", "o", "m", "p", "l", "e", "t", "e", "d", "A", "t">>

\* toISOString throws a RangeError on an Invalid Date, and so does toCsvRow
CsvRowThrows(t) ==
    \/ t.createdAt = NaN
    \/ t.updatedAt = NaN
    \/ t.completedAt = NaN

\* Task.toCsvRow (when it does not throw)
ToCsvRow(t) ==
    Join(<< NumToString(t.id),
            <<QUOTE>> \o DoubleQuotes(t.title) \o <<QUOTE>>,
            <<QUOTE>> \o DoubleQuotes(t.description) \o <<QUOTE>>,
            BoolToString(t.completed),
            ToISOString(t.createdAt),
            ToISOString(t.updatedAt),
            IF t.completedAt # Undefined THEN ToISOString(t.completedAt) ELSE <<>> >>,
         <<SEMI>>)

---------------------------------------------------------------------------
(* Task.parseCsvRow: the loop over the characters of the row               *)

ScanInit ==
    [i |-> 1, result |-> <<>>, current |-> <<>>, inQuotes |-> FALSE,
     startedWithQuote |-> FALSE]

NextChar(csvRow, i) == IF i < Len(csvRow) THEN csvRow[i + 1] ELSE EOR

\* the field pushed at a separator: a field that began with a quote is trimmed
PushedField(st) == IF st.startedWithQuote THEN Trim(st.current) ELSE st.current

\* one iteration of the loop
ScanStep(csvRow, st) ==
    LET char == csvRow[st.i]
        nextChar == NextChar(csvRow, st.i)
    IN  IF char = QUOTE THEN
            IF ~st.inQuotes /\ st.current = <<>> THEN
                [st EXCEPT !.i = st.i + 1, !.startedWithQuote = TRUE, !.inQuotes = TRUE]
            ELSE IF st.inQuotes /\ nextChar = QUOTE THEN
                [st EXCEPT !.i = st.i + 2, !.current = Append(st.current, QUOTE)]
            ELSE IF st.inQuotes /\ (nextChar = SEMI \/ nextChar = EOR) THEN
                [st EXCEPT !.i = st.i + 1, !.inQuotes = FALSE]
            ELSE
                \* no branch applies: the quote is not added to the field
                [st EXCEPT !.i = st.i + 1]
        ELSE IF char = SEMI /\ ~st.inQuotes THEN
            [st EXCEPT !.i = st.i + 1,
                       !.result = Append(st.result, PushedField(st)),
                       !.current = <<>>,
                       !.startedWithQuote = FALSE]
        ELSE
            [st EXCEPT !.i = st.i + 1, !.current = Append(st.current, char)]

RECURSIVE Scan(_, _)
Scan(csvRow, st) ==
    IF st.i > Len(csvRow) THEN st ELSE Scan(csvRow, ScanStep(csvRow, st))

\* Task.parseCsvRow: the last field is pushed as it is
ParseCsvRow(csvRow) ==
    LET st == Scan(csvRow, ScanInit) IN Append(st.result, st.current)

---------------------------------------------------------------------------
(* Task.fromCsvRow                                                         *)

ExpectedFields == 7

\* a test that rejects only rows with too few fields
BadFieldCountFewer(parts) == Len(parts) < ExpectedFields

\* the test that rejects a row
BadFieldCount(parts) == Len(parts) # ExpectedFields

\* title || "Untitled"
TitleOrSentinel(title) ==
    IF title = <<>> THEN <<"U", "n", "t", "i", "t", "l", "e", "d">> ELSE title

\* the completedAt given to the decoded task
RestoredCompletedAt(completedAt) ==
    IF completedAt # <<>> /\ Trim(completedAt) # <<>> THEN ParseDate(completedAt)
    ELSE Undefined

\* a constructor that skips an id
PostIncrementByTwo(counter) == counter + 2

\* Task.nextId++ : the counter after the constructor has taken an id
PostIncrement(counter) == counter + 1

\* a counter that decoding sets to the id after the decoded one
AdvanceNextIdTo(id, counter) == IF id # NaN THEN id + 1 ELSE counter

\* a counter that decoding never advances
AdvanceNextIdNever(id, counter) == counter

\* a counter that advances only past ids above it
AdvanceNextIdAbove(id, counter) ==
    IF id # NaN /\ id > counter THEN id + 1 ELSE counter

\* the counter after decoding id: the constructor has already incremented it
AdvanceNextId(id, counter) ==
    IF id # NaN /\ id >= counter THEN id + 1 ELSE counter

\* a decoder that constructs the Task before it counts the fields
FromCsvRowConstructFirst(csvRow, counter) ==
    LET parts == ParseCsvRow(csvRow)
    IN  IF BadFieldCount(parts) THEN
            [ok |-> FALSE, expected |-> ExpectedFields, actual |-> Len(parts),
             nextId |-> PostIncrement(counter)]
        ELSE
            LET id == ParseInt(parts[1])
            IN  [ok |-> TRUE,
                 task |-> [id |-> id,
                           title |-> TitleOrSentinel(parts[2]),
                           description |-> parts[3],
                           completed |-> (parts[4] = <<"t", "r", "u", "e">>),
                           createdAt |-> ParseDate(parts[5]),
                           updatedAt |-> ParseDate(parts[6]),
                           completedAt |-> RestoredCompletedAt(parts[7])],
                 nextId |-> AdvanceNextId(id, PostIncrement(counter))]

\* Task.fromCsvRow(csvRow) when the counter is `counter`: the error thrown, or
\* the task returned and the counter left behind
FromCsvRow(csvRow, counter) ==
    LET parts == ParseCsvRow(csvRow)
    IN  IF BadFieldCount(parts) THEN
            [ok |-> FALSE, expected |-> ExpectedFields, actual |-> Len(parts),
             nextId |-> counter]
        ELSE
            LET id == ParseInt(parts[1])
            IN  [ok |-> TRUE,
                 task |-> [id |-> id,
                           title |-> TitleOrSentinel(parts[2]),
                           description |-> parts[3],
                           completed |-> (parts[4] = <<"t", "r", "u", "e">>),
                           createdAt |-> ParseDate(parts[5]),
                           updatedAt |-> ParseDate(parts[6]),
                           completedAt |-> RestoredCompletedAt(parts[7])],
                 nextId |-> AdvanceNextId(id, PostIncrement(counter))]

---------------------------------------------------------------------------
(* FileService.loadTasks                                                   *)

\* the literal "id;title;description" the first line is searched for
HeaderSignature ==
    <<"i", "d", ";", "t", "i", "t", "l", "e", ";",
      "d", "e", "s", "c", "r", "i", "p", "t", "i", "o", "n">>

\* hasHeader: the test that makes loadTasks drop the first line
HasHeader(firstLine) == Includes(firstLine, HeaderSignature)

\* the lines that are parsed as rows
DataLines(lines) == IF HasHeader(lines[1]) THEN Tail(lines) ELSE lines

\* the loop over dataLines from index i (0-based, as in the code) with the
\* tasks, errors and id counter accumulated so far
RECURSIVE LoadLines(_, _, _)
LoadLines(dataLines, i, acc) ==
    IF i >= Len(dataLines) THEN acc
    ELSE
        LET line == Trim(dataLines[i + 1])
        IN  IF line = <<>> THEN LoadLines(dataLines, i + 1, acc)
            ELSE
                LET res == FromCsvRow(line, acc.nextId)
                IN  IF res.ok THEN
                        LoadLines(dataLines, i + 1,
                                  [acc EXCEPT !.tasks = Append(acc.tasks, res.task),
                                              !.nextId = res.nextId])
                    ELSE
                        LoadLines(dataLines, i + 1,
                                  [acc EXCEPT !.errors =
                                      Append(acc.errors,
                                             [line |-> i + 2, expected |-> res.expected,
                                              actual |-> res.actual]),
                                              !.nextId = res.nextId])

\* FileService.loadTasks when readFile returns `content` and the counter is
\* `counter`: the tasks returned, the row errors warned about, the counter left
LoadTasks(content, counter) ==
    LET lines == SplitOn(Trim(content), NL)
        empty == [tasks |-> <<>>, errors |-> <<>>, nextId |-> counter]
    IN  IF content = NoFile THEN empty
        ELSE IF Len(lines) = 1 /\ lines[1] = <<>> THEN empty
        ELSE LoadLines(DataLines(lines), 0, empty)

---------------------------------------------------------------------------
(* Specification SpecCodec: the codec applied to bounded inputs.  A run    *)
(* either hands a raw row to fromCsvRow, or encodes a Task with toCsvRow   *)
(* and decodes the row again.                                              *)

RawAlphabet == {QUOTE, SEMI, SPACE, "a"}

StringsUpTo(n) == UNION {[1..k -> RawAlphabet] : k \in 0..n}

RawRows == StringsUpTo(MaxRowLen)

SrcIds == {1, 12}

\* Tasks as the constructor and the mutators leave them
SrcTasks ==
    {[id |-> i, title |-> ti, description |-> de, completed |-> co,
      createdAt |-> cr, updatedAt |-> up, completedAt |-> ca] :
        i \in SrcIds, ti \in StringsUpTo(MaxStrLen), de \in StringsUpTo(MaxDescLen),
        co \in BOOLEAN, cr \in 0..MaxTime, up \in 0..MaxTime,
        ca \in {Undefined} \cup (0..MaxTime)}

WellFormed(t) ==
    /\ t.createdAt <= t.updatedAt
    /\ t.completed <=> (t.completedAt # Undefined)
    /\ t.completedAt # Undefined => (t.createdAt <= t.completedAt /\ t.completedAt <= t.updatedAt)

NoTask == [id |-> NaN]
NoResult == [ok |-> FALSE, expected |-> 0, actual |-> 0, nextId |-> 0]

\* no call observed yet
NoCall == [op |-> "none", id |-> 0, args |-> <<>>, ret |-> <<>>, before |-> <<>>]

\* the caller holds no array, nothing has been called, no backup exists
Unobserved ==
    /\ arr = <<>>
    /\ origin = "caller"
    /\ shared = FALSE
    /\ call = NoCall
    /\ backups = {}

Idle ==
    /\ tasks = <<>>
    /\ now = 0
    /\ file = NoFile
    /\ loaded = <<>>
    /\ errors = <<>>

CodecInit ==
    /\ Idle
    /\ Unobserved
    /\ produced = <<>>
    /\ fields = <<>>
    /\ dec = NoResult
    /\ \/ /\ pc = "raw"
          /\ row \in RawRows
          /\ src = NoTask
          /\ nextId = 1
       \/ /\ pc = "task"
          /\ src \in {t \in SrcTasks : WellFormed(t)}
          /\ row = <<>>
          /\ nextId = src.id + 1

\* the history of produced Task objects after a call of fromCsvRow
Decoded(res) ==
    IF res.ok THEN Append(produced, <<res.task.id, "decoded">>) ELSE produced

\* Task.fromCsvRow(row) on a raw row
DecodeRow ==
    /\ pc = "raw"
    /\ LET res == FromCsvRow(row, nextId)
       IN  /\ dec' = res
           /\ nextId' = res.nextId
           /\ produced' = Decoded(res)
    /\ fields' = ParseCsvRow(row)
    /\ pc' = "decoded"
    /\ UNCHANGED <<tasks, now, file, loaded, errors, row, src, arr, origin, shared, call, backups>>

\* src.toCsvRow()
Encode ==
    /\ pc = "task"
    /\ ~CsvRowThrows(src)
    /\ row' = ToCsvRow(src)
    /\ pc' = "encoded"
    /\ UNCHANGED <<nextId, tasks, now, produced, file, loaded, errors, src, fields, dec, arr, origin, shared, call, backups>>

\* Task.fromCsvRow(src.toCsvRow())
DecodeEncoded ==
    /\ pc = "encoded"
    /\ LET res == FromCsvRow(row, nextId)
       IN  /\ dec' = res
           /\ nextId' = res.nextId
           /\ produced' = Decoded(res)
    /\ fields' = ParseCsvRow(row)
    /\ pc' = "roundtrip"
    /\ UNCHANGED <<tasks, now, file, loaded, errors, row, src, arr, origin, shared, call, backups>>

CodecNext == DecodeRow \/ Encode \/ DecodeEncoded

SpecCodec == CodecInit /\ [][CodecNext]_vars

---------------------------------------------------------------------------
(* Claims about the codec, checked under SpecCodec                         *)

\* C1: decoding the row a Task encodes to gives back a task equal to it in
\* id, title, description, completed, createdAt, updatedAt and completedAt.
C1_RoundTrip ==
    pc = "roundtrip" => (dec.ok /\ dec.task = src)

\* C5: fromCsvRow fails exactly on the rows that do not split into 7 fields;
\* the error carries the expected count 7 and the actual count, and no Task
\* is produced.
C5_FieldCountError ==
    pc \in {"decoded", "roundtrip"} =>
        /\ Len(fields) # 7 =>
            /\ ~dec.ok
            /\ dec.expected = 7
            /\ dec.actual = Len(fields)
            /\ produced = <<>>
        /\ Len(fields) = 7 => dec.ok

\* a row of more than 7 fields has been rejected
C5_Witness ==
    /\ pc = "decoded"
    /\ Len(fields) > 7
    /\ ~dec.ok

RECURSIVE CountIn(_, _)
CountIn(s, c) ==
    IF s = <<>> THEN 0 ELSE (IF Head(s) = c THEN 1 ELSE 0) + CountIn(Tail(s), c)

\* the loop is at a quote inside an open quoted field that is followed
\* neither by a quote, nor by the separator, nor by the end of the row
AtStrayQuote(csvRow, st) ==
    /\ st.inQuotes
    /\ csvRow[st.i] = QUOTE
    /\ NextChar(csvRow, st.i) \notin {QUOTE, SEMI, EOR}

\* the loop is at the first quote of a doubled quote inside a quoted field
AtEscapedQuote(csvRow, st) ==
    /\ st.inQuotes
    /\ csvRow[st.i] = QUOTE
    /\ NextChar(csvRow, st.i) = QUOTE

RECURSIVE StrayQuotes(_, _)
StrayQuotes(csvRow, st) ==
    IF st.i > Len(csvRow) THEN 0
    ELSE (IF AtStrayQuote(csvRow, st) THEN 1 ELSE 0)
         + StrayQuotes(csvRow, ScanStep(csvRow, st))

RECURSIVE EscapedQuotes(_, _)
EscapedQuotes(csvRow, st) ==
    IF st.i > Len(csvRow) THEN 0
    ELSE (IF AtEscapedQuote(csvRow, st) THEN 1 ELSE 0)
         + EscapedQuotes(csvRow, ScanStep(csvRow, st))

\* C6: a quote met inside an open quoted field and followed neither by a
\* quote, nor by the separator, nor by the end of the row is kept as a
\* literal quote of the decoded field: the decoded fields hold one quote for
\* every doubled quote and one for every such stray quote.
C6_StrayQuoteKept ==
    pc = "decoded" =>
        CountIn(Join(fields, <<>>), QUOTE)
            = EscapedQuotes(row, ScanInit) + StrayQuotes(row, ScanInit)

\* no field of the row starts with a quote
NoFieldStartsWithQuote(csvRow) ==
    /\ csvRow # <<>> => csvRow[1] # QUOTE
    /\ \A i \in 1..(Len(csvRow) - 1) : csvRow[i] = SEMI => csvRow[i + 1] # QUOTE

\* C7: a field that does not start with a quote is decoded verbatim: it is
\* exactly the text between the surrounding separators, quotes included.
C7_UnquotedVerbatim ==
    (pc = "decoded" /\ NoFieldStartsWithQuote(row)) =>
        fields = SplitOn(row, SEMI)

---------------------------------------------------------------------------
(* Specification SpecLoad: loadTasks applied to bounded file texts.  A     *)
(* file is up to MaxLines lines, each the header, a blank line, a row      *)
(* written by toCsvRow, or a row with another number of fields.            *)

Pending(id, title, description) == NewTask(id, title, description, 0, 0)

Completed(id, title, description) ==
    MarkAsCompleted(NewTask(id, title, description, 0, 0), MaxTime, MaxTime)

RowPending == ToCsvRow(Pending(1, <<"a">>, <<>>))
RowCompleted == ToCsvRow(Completed(2, <<"b">>, <<"d">>))
\* the row of a task whose title is the text "id;title;description"
RowSignatureTitle == ToCsvRow(Pending(3, HeaderSignature, <<>>))
RowTwoFields == <<"4", SEMI, "a">>
RowEightFields == RowPending \o <<SEMI>>
RowIndented == <<SPACE, SPACE>> \o ToCsvRow(Pending(5, <<"c">>, <<>>))
BlankLine == <<SPACE>>
\* a row another tool wrote: updated before it was created
RowUpdatedFirst ==
    <<"6", SEMI, "a", SEMI, SEMI, "f", "a", "l", "s", "e", SEMI>>
        \o ToISOString(1) \o <<SEMI>> \o ToISOString(0) \o <<SEMI>>

FileLines ==
    {CsvHeaders, BlankLine, RowPending, RowCompleted, RowSignatureTitle,
     RowTwoFields, RowEightFields, RowIndented, RowUpdatedFirst}

FileTexts ==
    {Join(ls, <<NL>>) : ls \in UNION {[1..n -> FileLines] : n \in 0..MaxLines}}

LoadInit ==
    /\ tasks = <<>>
    /\ now = 0
    /\ produced = <<>>
    /\ loaded = <<>>
    /\ errors = <<>>
    /\ row = <<>>
    /\ src = NoTask
    /\ fields = <<>>
    /\ dec = NoResult
    /\ nextId = 1
    /\ pc = "file"
    /\ file \in FileTexts
    /\ Unobserved

RECURSIVE DecodedAll(_, _)
DecodedAll(hist, ts) ==
    IF ts = <<>> THEN hist
    ELSE DecodedAll(Append(hist, <<Head(ts).id, "decoded">>), Tail(ts))

\* loaded = await fileService.loadTasks()
Load ==
    /\ pc = "file"
    /\ LET res == LoadTasks(file, nextId)
       IN  /\ loaded' = res.tasks
           /\ errors' = res.errors
           /\ nextId' = res.nextId
           /\ produced' = DecodedAll(produced, res.tasks)
    /\ pc' = "loaded"
    /\ UNCHANGED <<tasks, now, file, row, src, fields, dec, arr, origin, shared, call, backups>>

LoadNext == Load

SpecLoad == LoadInit /\ [][LoadNext]_vars

---------------------------------------------------------------------------
(* Claims about loadTasks, checked under SpecLoad                          *)

\* the lines of the file text
LinesOf(content) == SplitOn(Trim(content), NL)

\* the rows of a file: its non-blank lines, without a first line that is the
\* header line
RowsOf(content) ==
    LET lines == LinesOf(content)
        body == IF Trim(lines[1]) = CsvHeaders THEN Tail(lines) ELSE lines
    IN  SelectSeq(body, LAMBDA l : Trim(l) # <<>>)

SevenFields(line) == Len(ParseCsvRow(Trim(line))) = 7

RECURSIVE TasksOfRows(_)
TasksOfRows(rows) ==
    IF rows = <<>> THEN <<>>
    ELSE <<FromCsvRow(Trim(Head(rows)), 1).task>> \o TasksOfRows(Tail(rows))

\* C8: loadTasks returns exactly the tasks of the rows that have 7 fields, in
\* file order, and collects exactly one error for every row with another
\* field count; blank lines give neither.
C8_PartialLoad ==
    pc = "loaded" =>
        LET rows == RowsOf(file)
        IN  /\ loaded = TasksOfRows(SelectSeq(rows, SevenFields))
            /\ Len(errors) = Len(SelectSeq(rows, LAMBDA l : ~SevenFields(l)))

\* C9: a first line that is not the header line is a data row: when it has 7
\* fields it produces the first task returned.
C9_HeaderlessFirstLine ==
    (pc = "loaded" /\ file # <<>>) =>
        LET first == Trim(LinesOf(file)[1])
        IN  (first # CsvHeaders /\ SevenFields(first)) =>
                (loaded # <<>> /\ loaded[1] = FromCsvRow(first, 1).task)

\* the id counter after the tasks ts have been decoded one after the other,
\* starting from counter c: each takes one id and then lifts the counter
\* above its own id
RECURSIVE CounterAfter(_, _)
CounterAfter(ts, c) ==
    IF ts = <<>> THEN c
    ELSE CounterAfter(Tail(ts),
                      IF Head(ts).id # NaN /\ Head(ts).id > c THEN Head(ts).id + 1
                      ELSE c + 1)

\* C29: a row that fromCsvRow rejects for its field count has no side effect:
\* after loadTasks the id counter is what decoding the returned tasks alone
\* leaves, and exactly one Task was created for every task returned, so the
\* rejected rows consume no ids.
C29_FailedDecodeNoEffect ==
    pc = "loaded" =>
        /\ nextId = CounterAfter(loaded, 1)
        /\ Len(produced) = Len(loaded)

\* a file whose first row is rejected and whose second row is a task
C29_Witness ==
    /\ pc = "loaded"
    /\ file = Join(<<RowTwoFields, RowPending>>, <<NL>>)
    /\ Len(errors) = 1
    /\ Len(loaded) = 1

---------------------------------------------------------------------------
(* TaskManager                                                             *)

Omitted == <<"undefined">>      \* an argument or property that is not given

\* task.id === id (NaN equals nothing, itself included)
SameId(t, id) == t.id # NaN /\ id # NaN /\ t.id = id

\* a search that settles for the last task when there is none with the id
FindIndexOrLast(ts, id) ==
    IF \E i \in 1..Len(ts) : SameId(ts[i], id)
    THEN SetMin({i \in 1..Len(ts) : SameId(ts[i], id)})
    ELSE Len(ts)

\* tasks.findIndex(task => task.id === id), 1-based; 0 when there is none
FindIndex(ts, id) ==
    IF \E i \in 1..Len(ts) : SameId(ts[i], id)
    THEN SetMin({i \in 1..Len(ts) : SameId(ts[i], id)})
    ELSE 0

\* a removal that turns the rest of the array around
SpliceReversed(ts, index) ==
    LET rest == SubSeq(ts, 1, index - 1) \o SubSeq(ts, index + 1, Len(ts))
    IN  [i \in 1..Len(rest) |-> rest[Len(rest) + 1 - i]]

\* tasks.splice(index, 1)
Splice(ts, index) == SubSeq(ts, 1, index - 1) \o SubSeq(ts, index + 1, Len(ts))

\* a title replaced whenever one is given
UpdatedTitleGiven(t, title) == IF title # Omitted THEN title ELSE t.title

\* the title updateTask leaves: updates.title is ignored when it is not
\* given or blank
UpdatedTitle(t, title) ==
    IF title # Omitted /\ Trim(title) # <<>> THEN title ELSE t.title

\* the description updateTask leaves
UpdatedDescription(t, description) ==
    IF description # Omitted THEN description ELSE t.description

\* an update that makes the task anew
UpdatedAnew(t, title, description, t1) ==
    [t EXCEPT !.title = IF title # Omitted /\ Trim(title) # <<>> THEN title ELSE t.title,
              !.description = IF description # Omitted THEN description ELSE t.description,
              !.createdAt = t1,
              !.updatedAt = t1]

\* the task after updateTask(id, {title, description}) at time t1
Updated(t, title, description, t1) ==
    [t EXCEPT !.title = UpdatedTitle(t, title),
              !.description = UpdatedDescription(t, description),
              !.updatedAt = t1]

\* the task after toggleTaskCompletion, its new Date() calls reading t1, t2
Toggled(t, t1, t2) ==
    IF t.completed THEN MarkAsIncomplete(t, t2) ELSE MarkAsCompleted(t, t1, t2)

\* tasks.find(task => task.id === id): the task, or NoTask for undefined
FindTask(ts, id) ==
    LET index == FindIndex(ts, id)
    IN  IF index = 0 THEN NoTask ELSE ts[index]

\* [...this.tasks]
GetAllTasks(ts) == [i \in 1..Len(ts) |-> ts[i]]

\* this.tasks.filter(task => task.completed)
GetCompletedTasks(ts) == SelectSeq(ts, LAMBDA t : t.completed)

\* this.tasks.filter(task => !task.completed)
GetPendingTasks(ts) == SelectSeq(ts, LAMBDA t : ~t.completed)

\* a collection whose pending count is its size
GetStatsAllPending(ts) ==
    [total |-> Len(ts), completed |-> Len(GetCompletedTasks(ts)), pending |-> Len(ts)]

\* taskManager.getStats()
GetStats(ts) ==
    [total |-> Len(ts),
     completed |-> Len(GetCompletedTasks(ts)),
     pending |-> Len(GetPendingTasks(ts))]

---------------------------------------------------------------------------
(* Specification Spec: one process using Task, TaskManager and the loader. *)
(* Titles, descriptions, ids and file texts given to the operations are    *)
(* drawn from small sets.                                                  *)

NoSuchId == 999

\* <<title, description>> given to addTask
AddArgs == {<< <<>>, Omitted >>, << <<"a">>, <<"d">> >>}

\* <<title, description>> given to updateTask
UpdateArgs ==
    {<< Omitted, Omitted >>, << <<>>, Omitted >>, << <<SPACE>>, Omitted >>, << <<"b">>, <<>> >>}

\* a row another tool wrote: completed, with no completedAt
RowNoCompletedAt ==
    <<"2", SEMI, "a", SEMI, SEMI, "t", "r", "u", "e", SEMI>>
        \o ToISOString(0) \o <<SEMI>> \o ToISOString(0) \o <<SEMI>>

\* a row another tool wrote: the title is one unquoted space
RowBlankTitle ==
    <<"9", SEMI, SPACE, SEMI, SEMI, "f", "a", "l", "s", "e", SEMI>>
        \o ToISOString(0) \o <<SEMI>> \o ToISOString(0) \o <<SEMI>>

SysRows == {RowPending, RowNoCompletedAt, RowBlankTitle, RowTwoFields}

\* save files the process finds: written by saveTasks, or by another tool
\* without a header
SysFiles ==
    {Join(<<CsvHeaders, RowPending, RowTwoFields>>, <<NL>>),
     Join(<<RowNoCompletedAt, RowBlankTitle>>, <<NL>>)}

\* the values two consecutive new Date() calls can read
ClockReads == {<<now, t2>> : t2 \in {t \in {now, now + 1} : t <= MaxTime}}

\* ids a caller can name: those of the collection, and one that no task has
CallerIds == {tasks[i].id : i \in 1..Len(tasks)} \cup {NoSuchId}

Init ==
    /\ nextId = 1
    /\ tasks = <<>>
    /\ now = 0
    /\ produced = <<>>
    /\ file = NoFile
    /\ loaded = <<>>
    /\ errors = <<>>
    /\ pc = "run"
    /\ row = <<>>
    /\ src = NoTask
    /\ fields = <<>>
    /\ dec = NoResult
    /\ Unobserved

\* time passes
Tick ==
    /\ now < MaxTime
    /\ now' = now + 1
    /\ UNCHANGED <<nextId, tasks, produced, file, loaded, errors, pc, row, src, fields, dec, arr, origin, shared, call, backups>>

\* new Task(title, description), kept by the caller
Construct ==
    /\ Len(produced) < MaxProduced
    /\ \E r \in ClockReads :
        /\ now' = r[2]
    /\ produced' = Append(produced, <<nextId, "new">>)
    /\ nextId' = PostIncrement(nextId)
    /\ UNCHANGED <<tasks, file, loaded, errors, pc, row, src, fields, dec, arr, origin, shared, call, backups>>

\* taskManager.addTask(title, description)
AddTask ==
    /\ Len(produced) < MaxProduced
    /\ \E a \in AddArgs, r \in ClockReads :
        /\ tasks' = Append(tasks,
                           NewTask(nextId, a[1], IF a[2] = Omitted THEN <<>> ELSE a[2],
                                   r[1], r[2]))
        /\ now' = r[2]
    /\ produced' = Append(produced, <<nextId, "new">>)
    /\ nextId' = PostIncrement(nextId)
    /\ UNCHANGED <<file, loaded, errors, pc, row, src, fields, dec, arr, origin, shared, call, backups>>

\* taskManager.removeTask(id)
RemoveTask ==
    /\ \E id \in CallerIds :
        LET index == FindIndex(tasks, id)
        IN  IF index # 0
            THEN tasks' = Splice(tasks, index)
            ELSE tasks' = tasks
    /\ UNCHANGED <<nextId, now, produced, file, loaded, errors, pc, row, src, fields, dec, arr, origin, shared, call, backups>>

\* taskManager.updateTask(id, {title, description})
UpdateTask ==
    /\ \E id \in CallerIds, u \in UpdateArgs :
        LET index == FindIndex(tasks, id)
        IN  IF index = 0
            THEN tasks' = tasks
            ELSE tasks' = [tasks EXCEPT ![index] = Updated(@, u[1], u[2], now)]
    /\ UNCHANGED <<nextId, now, produced, file, loaded, errors, pc, row, src, fields, dec, arr, origin, shared, call, backups>>

\* taskManager.toggleTaskCompletion(id)
ToggleTaskCompletion ==
    /\ \E id \in CallerIds, r \in ClockReads :
        LET index == FindIndex(tasks, id)
        IN  IF index = 0
            THEN tasks' = tasks /\ now' = now
            ELSE /\ tasks' = [tasks EXCEPT ![index] = Toggled(@, r[1], r[2])]
                 /\ now' = r[2]
    /\ UNCHANGED <<nextId, produced, file, loaded, errors, pc, row, src, fields, dec, arr, origin, shared, call, backups>>

\* taskManager.clearAllTasks()
ClearAllTasks ==
    /\ tasks' = <<>>
    /\ UNCHANGED <<nextId, now, produced, file, loaded, errors, pc, row, src, fields, dec, arr, origin, shared, call, backups>>

\* Task.fromCsvRow(row) on a row of the save file, the task kept by the caller
FromCsvRowCall ==
    /\ Len(produced) < MaxProduced
    /\ \E r \in SysRows :
        LET res == FromCsvRow(r, nextId)
        IN  /\ nextId' = res.nextId
            /\ produced' = Decoded(res)
    /\ UNCHANGED <<tasks, now, file, loaded, errors, pc, row, src, fields, dec, arr, origin, shared, call, backups>>

\* loaded = await fileService.loadTasks(), readFile returning one of SysFiles
LoadTasksCall ==
    /\ Len(produced) < MaxProduced
    /\ \E text \in SysFiles :
        LET res == LoadTasks(text, nextId)
        IN  /\ Len(produced) + Len(res.tasks) <= MaxProduced
            /\ loaded' = res.tasks
            /\ errors' = res.errors
            /\ nextId' = res.nextId
            /\ produced' = DecodedAll(produced, res.tasks)
    /\ UNCHANGED <<tasks, now, file, pc, row, src, fields, dec, arr, origin, shared, call, backups>>

\* taskManager.setTasks(loaded): the caller hands the loaded array over
SetTasks ==
    /\ tasks' = loaded
    /\ loaded' = <<>>
    /\ errors' = <<>>
    /\ UNCHANGED <<nextId, now, produced, file, pc, row, src, fields, dec, arr, origin, shared, call, backups>>

Next ==
    \/ Tick
    \/ Construct
    \/ AddTask
    \/ RemoveTask
    \/ UpdateTask
    \/ ToggleTaskCompletion
    \/ ClearAllTasks
    \/ FromCsvRowCall
    \/ LoadTasksCall
    \/ SetTasks

Spec == Init /\ [][Next]_vars

---------------------------------------------------------------------------
(* Claims about ids, completion and titles, checked under Spec             *)

C4_CompletedIffCompletedAt ==
    \A i \in 1..Len(tasks) :
        tasks[i].completed <=> (tasks[i].completedAt # Undefined)

Blank(s) == Trim(s) = <<>>

\* C10: every Task held by the TaskManager has a title that is neither empty
\* nor white space only.
C10_TitlesNotBlank ==
    \A i \in 1..Len(tasks) : ~Blank(tasks[i].title)

\* C12: the id counter never decreases, and a step changes it only when a
\* Task is constructed (new Task, addTask) or decoded (fromCsvRow, loadTasks):
\* every other operation leaves it unchanged.
C12_CounterMonotonic ==
    [][/\ nextId' >= nextId
       /\ nextId' # nextId =>
            (Construct \/ AddTask \/ FromCsvRowCall \/ LoadTasksCall)]_vars

\* a decode has advanced the counter past the id of its row
C12_Witness == nextId = 10 /\ produced = <<<<9, "decoded">>>>

\* C14: from a fresh counter and with no decode in between, the k-th task
\* constructed gets id k.
C14_SequentialIds ==
    (\A i \in 1..Len(produced) : produced[i][2] = "new")
        => \A k \in 1..Len(produced) : produced[k][1] = k

\* two tasks have been constructed one after the other, with no decode
C14_Witness == produced = <<<<1, "new">>, <<2, "new">>>> /\ Len(tasks) = 1

---------------------------------------------------------------------------
(* Claims about the ids of decoded tasks, checked under SpecCodec          *)

\* C11: every Task that has been produced, newly constructed or returned by a
\* successful fromCsvRow, has an id that is an integer of at least 1.
C11_PositiveIds ==
    \A i \in 1..Len(produced) : produced[i][1] # NaN /\ produced[i][1] >= 1

---------------------------------------------------------------------------
(* Claims about the timestamps of loaded tasks, checked under SpecLoad     *)

\* a >= b on the time values of two Dates (false when either is invalid)
NotEarlier(a, b) == a # NaN /\ b # NaN /\ a >= b

\* C13: for every Task, updatedAt is not earlier than createdAt.
C13_UpdatedNotBeforeCreated ==
    /\ \A i \in 1..Len(tasks) : NotEarlier(tasks[i].updatedAt, tasks[i].createdAt)
    /\ \A i \in 1..Len(loaded) : NotEarlier(loaded[i].updatedAt, loaded[i].createdAt)

---------------------------------------------------------------------------
(* FileService: the save file, the errors of the storage calls, saveTasks  *)

Denied == <<"EACCES">>          \* the save file cannot be accessed

\* the code of the error a file system call on f fails with, "" when it succeeds
ErrorCode(f) == IF f = NoFile THEN "ENOENT" ELSE IF f = Denied THEN "EACCES" ELSE ""

\* a test that takes no error for not-found
NotFoundNever(code) == FALSE

\* (e as any).code === "ENOENT"
NotFound(code) == code = "ENOENT"

\* loadTasks raises: readFile failed with another error than not-found
LoadRaises(f) == ErrorCode(f) # "" /\ ~NotFound(ErrorCode(f))

\* deleteSaveFile raises: unlink failed with another error than not-found
DeleteRaises(f) == ErrorCode(f) # "" /\ ~NotFound(ErrorCode(f))

\* FileService.exists(): access succeeded
Exists(f) == ErrorCode(f) = ""

\* the text saveTasks writes for the collection ts
SavedText(ts) ==
    Join(<<CsvHeaders>> \o [i \in 1..Len(ts) |-> ToCsvRow(ts[i])], <<NL>>)

\* a message every operation starts with the same way
PrefixOfLoad(op) == "Failed to load tasks: "

\* the text the message of the Error thrown by op starts with
Prefix(op) ==
    IF op = "saveTasks" THEN "Failed to save tasks: "
    ELSE IF op = "loadTasks" THEN "Failed to load tasks: "
    ELSE IF op = "deleteSaveFile" THEN "Failed to delete save file: "
    ELSE "Failed to create backup: "

\* the codes copyFile can fail with ("" when it succeeds): the source is
\* gone, or the copy cannot be written
CopyCodes(f) == IF Exists(f) THEN {"", "ENOSPC"} ELSE {ErrorCode(f)}

\* a FileService call: whether it raised and with what message, what it
\* returned, the code its storage call failed with, the storage calls it made
FileObserved(op, raised, ret, code, calls) ==
    [op |-> op, id |-> 0, args |-> <<>>,
     ret |-> [raised |-> raised, message |-> IF raised THEN Prefix(op) ELSE "",
              value |-> ret, code |-> code, calls |-> calls],
     before |-> file]

\* await fileService.saveTasks(taskManager)
SaveTasksCall ==
    /\ pc \in {"fs", "manager"}
    /\ pc' = IF pc = "fs" THEN "done" ELSE "saved"
    /\ file' = IF file = Denied THEN file ELSE SavedText(GetAllTasks(tasks))
    /\ call' = FileObserved("saveTasks", file = Denied, <<>>,
                             IF file = Denied THEN ErrorCode(file) ELSE "",
                             <<"access", "writeFile">>)
    /\ UNCHANGED <<nextId, tasks, now, produced, loaded, errors, row, src, fields, dec,
                   arr, origin, shared, backups>>

---------------------------------------------------------------------------
(* Specification SpecManager: one call on a TaskManager that holds a       *)
(* collection built earlier, observed: `call` holds what was called, what  *)
(* it returned and the collection as it was before.  Or the caller gets an *)
(* array (from a query, or its own), may hand it to setTasks, and changes  *)
(* it.  The collection was built by addTask, or loaded from a save file    *)
(* and installed with setTasks.  After a toggle the same id can be toggled *)
(* again, and after a removal the removed id can be looked up.             *)

Observed(op, id, args, ret) ==
    [op |-> op, id |-> id, args |-> args, ret |-> ret, before |-> tasks]

Reverse(a) == [i \in 1..Len(a) |-> a[Len(a) + 1 - i]]

\* ids of the tasks a manager holds at the start
HeldIds == {1, 2}

\* tasks as addTask, updateTask and toggleTaskCompletion leave them
HeldTasks ==
    {t \in [id : HeldIds, title : {<<"a">>}, description : {<<"d">>},
            completed : BOOLEAN, createdAt : 0..MaxTime, updatedAt : 0..MaxTime,
            completedAt : {Undefined} \cup (0..MaxTime)] : WellFormed(t)}

\* collections: every task object once
Collections ==
    {ts \in UNION {[1..n -> HeldTasks] : n \in 0..Cardinality(HeldIds)} :
        \A i, j \in 1..Len(ts) : i # j => ts[i].id # ts[j].id}

\* the orders three tasks can be held in: as added, or as given to setTasks
TrioOrders == {<<1, 2, 3>>, <<3, 1, 2>>}

\* collections of three tasks, each completed or pending
Trios ==
    {[i \in 1..3 |-> IF c[i] THEN Completed(o[i], <<"a">>, <<"d">>)
                     ELSE Pending(o[i], <<"a">>, <<"d">>)] :
        o \in TrioOrders, c \in [1..3 -> BOOLEAN]}

\* the id counter of a process that has constructed the tasks of ts
NextAfter(ts) == SetMax(HeldIds \cup {ts[i].id : i \in 1..Len(ts)}) + 1

\* the latest timestamp in a collection
LastStamp(ts) ==
    SetMax({0} \cup {ts[i].updatedAt : i \in 1..Len(ts)})

\* the Task objects constructed so far, when `counter` is the next id
Constructed(counter) == [i \in 1..(counter - 1) |-> <<i, "new">>]

\* save files a manager was filled from: one with a row another tool wrote
\* (completed, no completedAt), one with two rows of the same id
ManagerFiles ==
    {Join(<<CsvHeaders, RowPending, RowNoCompletedAt>>, <<NL>>),
     Join(<<CsvHeaders, RowPending, ToCsvRow(Completed(1, <<"b">>, <<"d">>))>>, <<NL>>)}

ManagerInit ==
    /\ \/ /\ tasks \in Collections \cup Trios
          /\ nextId = NextAfter(tasks)
          /\ produced = Constructed(nextId)
          /\ file = NoFile
          /\ loaded = <<>>
       \/ \E f \in ManagerFiles :
            LET res == LoadTasks(f, 1)
            IN  /\ tasks = res.tasks
                /\ nextId = res.nextId
                /\ produced = DecodedAll(<<>>, res.tasks)
                /\ file = f
                /\ loaded = res.tasks
    /\ now \in LastStamp(tasks)..MaxTime
    /\ errors = <<>>
    /\ pc = "manager"
    /\ row = <<>>
    /\ src = NoTask
    /\ fields = <<>>
    /\ dec = NoResult
    /\ Unobserved

\* a call has returned
Returned == pc = "manager" /\ pc' = "returned"

\* taskManager.addTask(title, description)
AddTaskCall ==
    /\ Returned
    /\ \E a \in AddArgs, r \in ClockReads :
        LET task == NewTask(nextId, a[1], IF a[2] = Omitted THEN <<>> ELSE a[2],
                            r[1], r[2])
        IN  /\ tasks' = Append(tasks, task)
            /\ now' = r[2]
            /\ call' = Observed("addTask", nextId, a, task)
    /\ produced' = Append(produced, <<nextId, "new">>)
    /\ nextId' = PostIncrement(nextId)
    /\ UNCHANGED <<file, loaded, errors, row, src, fields, dec, arr, origin, shared, backups>>

\* taskManager.removeTask(id)
RemoveTaskCall ==
    /\ Returned
    /\ \E id \in CallerIds :
        LET index == FindIndex(tasks, id)
        IN  /\ tasks' = IF index # 0 THEN Splice(tasks, index) ELSE tasks
            /\ call' = Observed("removeTask", id, <<>>, index # 0)
    /\ UNCHANGED <<nextId, now, produced, file, loaded, errors, row, src, fields, dec,
                   arr, origin, shared, backups>>

\* taskManager.updateTask(id, {title, description})
UpdateTaskCall ==
    /\ Returned
    /\ \E id \in CallerIds, u \in UpdateArgs :
        LET index == FindIndex(tasks, id)
        IN  /\ tasks' = IF index = 0 THEN tasks
                        ELSE [tasks EXCEPT ![index] = Updated(@, u[1], u[2], now)]
            /\ call' = Observed("updateTask", id, u, index # 0)
    /\ UNCHANGED <<nextId, now, produced, file, loaded, errors, row, src, fields, dec,
                   arr, origin, shared, backups>>

\* taskManager.findTask(id)
FindTaskCall ==
    /\ Returned
    /\ \E id \in CallerIds :
        call' = Observed("findTask", id, <<>>, FindTask(tasks, id))
    /\ UNCHANGED <<nextId, tasks, now, produced, file, loaded, errors, row, src, fields,
                   dec, arr, origin, shared, backups>>

\* taskManager.toggleTaskCompletion(id)
ToggleTaskCompletionCall ==
    /\ Returned
    /\ \E id \in CallerIds, r \in ClockReads :
        LET index == FindIndex(tasks, id)
        IN  /\ tasks' = IF index = 0 THEN tasks
                        ELSE [tasks EXCEPT ![index] = Toggled(@, r[1], r[2])]
            /\ now' = IF index = 0 THEN now ELSE r[2]
            /\ call' = Observed("toggleTaskCompletion", id, <<>>, index # 0)
    /\ UNCHANGED <<nextId, produced, file, loaded, errors, row, src, fields, dec,
                   arr, origin, shared, backups>>

\* taskManager.toggleTaskCompletion(id) once more, on the id just toggled
ToggleAgain ==
    /\ pc = "returned"
    /\ call.op = "toggleTaskCompletion"
    /\ call.ret = TRUE
    /\ pc' = "toggled"
    /\ \E r \in ClockReads :
        /\ tasks' = [tasks EXCEPT ![FindIndex(tasks, call.id)] = Toggled(@, r[1], r[2])]
        /\ now' = r[2]
    /\ UNCHANGED <<nextId, produced, file, loaded, errors, row, src, fields, dec,
                   arr, origin, shared, call, backups>>

\* taskManager.findTask(id) with the id removeTask has just removed
FindRemoved ==
    /\ pc = "returned"
    /\ call.op = "removeTask"
    /\ call.ret = TRUE
    /\ pc' = "found"
    /\ call' = [Observed("findTask", call.id, <<>>, FindTask(tasks, call.id))
                    EXCEPT !.before = call.before]
    /\ UNCHANGED <<nextId, tasks, now, produced, file, loaded, errors, row, src, fields,
                   dec, arr, origin, shared, backups>>

\* the lines a user can answer a prompt with
MenuAnswers == {<<>>, <<SPACE>>, <<"b">>}

\* the updates object Menu.updateTask builds from the two answers
MenuUpdates(newTitle, newDescription) ==
    << IF Trim(newTitle) # <<>> THEN newTitle ELSE Omitted,
       IF Trim(newDescription) # <<>> \/ newDescription = <<>> THEN newDescription
       ELSE Omitted >>

\* Menu.updateTask(): the user names a task and answers the two prompts
MenuUpdateTask ==
    /\ Returned
    /\ \E id \in CallerIds, newTitle \in MenuAnswers, newDescription \in MenuAnswers :
        LET updates == MenuUpdates(newTitle, newDescription)
            index == FindIndex(tasks, id)
            called == FindTask(tasks, id) # NoTask /\ updates # <<Omitted, Omitted>>
        IN  /\ tasks' = IF called
                        THEN [tasks EXCEPT ![index] = Updated(@, updates[1], updates[2], now)]
                        ELSE tasks
            /\ call' = Observed("Menu.updateTask", id, <<newTitle, newDescription>>, called)
    /\ UNCHANGED <<nextId, now, produced, file, loaded, errors, row, src, fields, dec,
                   arr, origin, shared, backups>>

\* taskManager.getStats()
GetStatsCall ==
    /\ Returned
    /\ call' = Observed("getStats", 0, <<>>, GetStats(tasks))
    /\ UNCHANGED <<nextId, tasks, now, produced, file, loaded, errors, row, src, fields,
                   dec, arr, origin, shared, backups>>

\* taskManager.clearAllTasks(): the manager takes a new empty array
ClearAllTasksCall ==
    /\ Returned
    /\ tasks' = <<>>
    /\ call' = Observed("clearAllTasks", 0, <<>>, <<>>)
    /\ UNCHANGED <<nextId, now, produced, file, loaded, errors, row, src, fields, dec,
                   arr, origin, shared, backups>>

\* tasks[i].toCsvRow() on a task of the collection
ToCsvRowCall ==
    /\ Returned
    /\ \E i \in 1..Len(tasks) :
        call' = Observed("toCsvRow", tasks[i].id, <<>>, ToCsvRow(tasks[i]))
    /\ UNCHANGED <<nextId, tasks, now, produced, file, loaded, errors, row, src, fields,
                   dec, arr, origin, shared, backups>>

\* arr = taskManager.getAllTasks() / getCompletedTasks() / getPendingTasks()
Query(op, ret) ==
    /\ pc = "manager"
    /\ pc' = "held"
    /\ arr' = ret
    /\ origin' = op
    /\ shared' = FALSE
    /\ call' = Observed(op, 0, <<>>, ret)
    /\ UNCHANGED <<nextId, tasks, now, produced, file, loaded, errors, row, src, fields,
                   dec, backups>>

GetAllTasksCall == Query("getAllTasks", GetAllTasks(tasks))

GetCompletedTasksCall == Query("getCompletedTasks", GetCompletedTasks(tasks))

GetPendingTasksCall == Query("getPendingTasks", GetPendingTasks(tasks))

\* arr = [new Task("a")]
BuildArray ==
    /\ pc = "manager"
    /\ pc' = "held"
    /\ \E r \in ClockReads :
        /\ arr' = <<NewTask(nextId, <<"a">>, <<>>, r[1], r[2])>>
        /\ now' = r[2]
    /\ produced' = Append(produced, <<nextId, "new">>)
    /\ nextId' = PostIncrement(nextId)
    /\ UNCHANGED <<tasks, file, loaded, errors, row, src, fields, dec, origin, shared, call,
                   backups>>

\* taskManager.setTasks(arr): the manager keeps the array it is given
SetTasksCall ==
    /\ pc = "held"
    /\ pc' = "handed"
    /\ tasks' = arr
    /\ shared' = TRUE
    /\ call' = Observed("setTasks", 0, arr, <<>>)
    /\ UNCHANGED <<nextId, now, produced, file, loaded, errors, row, src, fields, dec,
                   arr, origin, backups>>

\* the caller changed its array: the manager's array changes with it when
\* the two are the same object
ArrayChanged(op, a) ==
    /\ pc \in {"held", "handed"}
    /\ pc' = "changed"
    /\ arr' = a
    /\ tasks' = IF shared THEN a ELSE tasks
    /\ call' = Observed(op, 0, <<>>, <<>>)

\* arr.push(new Task("a"))
ArrPush ==
    /\ \E r \in ClockReads :
        /\ ArrayChanged("push", Append(arr, NewTask(nextId, <<"a">>, <<>>, r[1], r[2])))
        /\ now' = r[2]
    /\ produced' = Append(produced, <<nextId, "new">>)
    /\ nextId' = PostIncrement(nextId)
    /\ UNCHANGED <<file, loaded, errors, row, src, fields, dec, origin, shared, backups>>

\* arr.splice(0, 1)
ArrSplice ==
    /\ arr # <<>>
    /\ ArrayChanged("splice", Splice(arr, 1))
    /\ UNCHANGED <<nextId, now, produced, file, loaded, errors, row, src, fields, dec,
                   origin, shared, backups>>

\* arr.reverse()
ArrReverse ==
    /\ Len(arr) > 1
    /\ ArrayChanged("reverse", Reverse(arr))
    /\ UNCHANGED <<nextId, now, produced, file, loaded, errors, row, src, fields, dec,
                   origin, shared, backups>>

ManagerNext ==
    \/ AddTaskCall
    \/ RemoveTaskCall
    \/ UpdateTaskCall
    \/ FindTaskCall
    \/ ToggleTaskCompletionCall
    \/ ToggleAgain
    \/ FindRemoved
    \/ MenuUpdateTask
    \/ GetStatsCall
    \/ ClearAllTasksCall
    \/ ToCsvRowCall
    \/ SaveTasksCall
    \/ GetAllTasksCall
    \/ GetCompletedTasksCall
    \/ GetPendingTasksCall
    \/ BuildArray
    \/ SetTasksCall
    \/ ArrPush
    \/ ArrSplice
    \/ ArrReverse

SpecManager == ManagerInit /\ [][ManagerNext]_vars

---------------------------------------------------------------------------
(* Claims about the TaskManager, checked under SpecManager                 *)

Queries == {"getAllTasks", "getCompletedTasks", "getPendingTasks"}

\* what the manager shows of a collection: getAllTasks, getStats, findTask
Shown(ts) ==
    [all |-> GetAllTasks(ts), stats |-> GetStats(ts),
     found |-> [id \in HeldIds \cup {NoSuchId} |-> FindTask(ts, id)]]

\* C15: after the caller has changed (push, splice, reverse) an array that a
\* query returned, getAllTasks returns the same tasks in the same order as
\* before the change.
C15_ViewsAreCopies ==
    (pc = "changed" /\ origin \in Queries)
        => GetAllTasks(tasks) = GetAllTasks(call.before)

\* C16: after setTasks(arr), a change (push, splice, reverse) the caller makes
\* to arr does not change what getAllTasks, getStats and findTask return.
C16_SetTasksOwnsItsArray ==
    (pc = "changed" /\ shared) => Shown(tasks) = Shown(call.before)

ById == {"removeTask", "updateTask", "toggleTaskCompletion", "findTask"}

\* no task of ts has the id
Absent(ts, id) == \A i \in 1..Len(ts) : ts[i].id # id

\* C17: for an id that no task of the collection has, removeTask, updateTask
\* and toggleTaskCompletion return false, findTask returns undefined, and the
\* collection is left as it was.
C17_AbsentId ==
    (pc = "returned" /\ call.op \in ById /\ Absent(call.before, call.id))
        => /\ tasks = call.before
           /\ call.ret = (IF call.op = "findTask" THEN NoTask ELSE FALSE)

\* removeTask has been called with an id that none of the held tasks has
C17_Witness ==
    /\ pc = "returned"
    /\ call.op = "removeTask"
    /\ call.before # <<>>
    /\ Absent(call.before, call.id)

Count(ts, b) == Cardinality({i \in 1..Len(ts) : ts[i].completed = b})

\* C19: getStats returns the number of tasks as total, the number of completed
\* tasks as completed and the number of pending tasks as pending, so that
\* total = completed + pending; all three are 0 for an empty collection.
C19_Stats ==
    (pc = "returned" /\ call.op = "getStats")
        => /\ tasks = call.before
           /\ call.ret.total = Len(tasks)
           /\ call.ret.completed = Count(tasks, TRUE)
           /\ call.ret.pending = Count(tasks, FALSE)
           /\ call.ret.total = call.ret.completed + call.ret.pending
           /\ tasks = <<>> => call.ret = [total |-> 0, completed |-> 0, pending |-> 0]

\* getStats has been called on two tasks of which one is completed
C19_Witness ==
    /\ pc = "returned"
    /\ call.op = "getStats"
    /\ call.ret = [total |-> 2, completed |-> 1, pending |-> 1]

\* the tasks of ts at the positions I, in the order of ts
Restricted(ts, I) ==
    [k \in 1..Cardinality(I) |->
        ts[CHOOSE i \in I : Cardinality({j \in I : j < i}) = k - 1]]

\* ts without its element at position i, the others in their order
Without(ts, i) ==
    [k \in 1..(Len(ts) - 1) |-> IF k < i THEN ts[k] ELSE ts[k + 1]]

\* C23: the collection keeps insertion order: after addTask, getAllTasks is
\* the earlier collection followed by the new task; after setTasks it is the
\* sequence given; removeTask takes one task out and keeps the others in
\* their order; getCompletedTasks and getPendingTasks return the completed
\* and the pending tasks in collection order, every task in exactly one.
C23_InsertionOrder ==
    /\ (pc = "returned" /\ call.op = "addTask")
            => GetAllTasks(tasks) = Append(call.before, call.ret)
    /\ pc = "handed" => GetAllTasks(tasks) = call.args
    /\ (pc = "returned" /\ call.op = "removeTask" /\ call.ret = TRUE)
            => \E i \in 1..Len(call.before) :
                   /\ call.before[i].id = call.id
                   /\ GetAllTasks(tasks) = Without(call.before, i)
    /\ (pc = "held" /\ origin = "getAllTasks") => arr = tasks
    /\ (pc = "held" /\ origin \in {"getCompletedTasks", "getPendingTasks"})
            => LET done == {i \in 1..Len(tasks) : tasks[i].completed}
                   open == (1..Len(tasks)) \ done
               IN  /\ GetCompletedTasks(tasks) = Restricted(tasks, done)
                   /\ GetPendingTasks(tasks) = Restricted(tasks, open)
                   /\ arr = IF origin = "getCompletedTasks" THEN Restricted(tasks, done)
                            ELSE Restricted(tasks, open)

\* the middle one of three tasks has been removed
C23_Witness ==
    /\ pc = "returned"
    /\ call.op = "removeTask"
    /\ call.ret = TRUE
    /\ Len(call.before) = 3
    /\ call.id = call.before[2].id
    /\ Len(tasks) = 2

\* the id and createdAt of every task of ts, in order
Stamp(ts) == [k \in 1..Len(ts) |-> <<ts[k].id, ts[k].createdAt>>]

FrameOps == {"updateTask", "toggleTaskCompletion", "removeTask", "toCsvRow", "saveTasks"}

\* C24: the id and createdAt of a Task never change: updateTask,
\* toggleTaskCompletion (markAsCompleted, markAsIncomplete), toCsvRow and
\* saveTasks leave the id and createdAt of every task of the collection as
\* they were, and removeTask those of every task it leaves in the collection.
C24_IdAndCreatedAtKept ==
    [][call'.op \in FrameOps =>
          IF call'.op = "removeTask" /\ call'.ret = TRUE
          THEN \E i \in 1..Len(tasks) : Stamp(tasks') = Without(Stamp(tasks), i)
          ELSE Stamp(tasks') = Stamp(tasks)]_vars

\* a pending task has been completed by toggleTaskCompletion at a later
\* time than it was created
C24_Witness ==
    /\ pc = "returned"
    /\ call.op = "toggleTaskCompletion"
    /\ \E i \in 1..Len(tasks) :
        /\ tasks[i].id = call.id
        /\ tasks[i].completed
        /\ ~call.before[i].completed
        /\ tasks[i].completedAt > tasks[i].createdAt

\* C25: toggleTaskCompletion on an existing id returns true and flips the
\* task: a pending task becomes completed with a completedAt not earlier than
\* the call, a completed task becomes pending with no completedAt, updatedAt
\* is refreshed either way; after two toggles of the same id in a row the
\* completed flag and the presence of completedAt are as they were at first.
C25_Toggle ==
    [][(call'.op = "toggleTaskCompletion" /\ ~Absent(tasks, call'.id)) =>
          LET i == SetMin({k \in 1..Len(tasks) : tasks[k].id = call'.id})
              old == tasks[i]
              new == tasks'[i]
              first == call'.before[i]
          IN  /\ call'.ret = TRUE
              /\ Len(tasks') = Len(tasks)
              /\ \A k \in 1..Len(tasks) : k # i => tasks'[k] = tasks[k]
              /\ new.completed = ~old.completed
              /\ ~old.completed => (new.completedAt # Undefined /\ new.completedAt >= now)
              /\ old.completed => new.completedAt = Undefined
              /\ new.updatedAt >= now
              /\ new.updatedAt = now'
              /\ pc' = "toggled" =>
                    /\ new.completed = first.completed
                    /\ (new.completedAt = Undefined) <=> (first.completedAt = Undefined)]_vars

\* the toggles of a task that was completed with a completedAt, or pending
\* without one, when the first toggle was made
C25_ToggleOfConsistentTask ==
    [][(call'.op = "toggleTaskCompletion" /\ ~Absent(tasks, call'.id)) =>
          LET i == SetMin({k \in 1..Len(tasks) : tasks[k].id = call'.id})
              old == tasks[i]
              new == tasks'[i]
              first == call'.before[i]
          IN  (first.completed <=> (first.completedAt # Undefined)) =>
              /\ call'.ret = TRUE
              /\ new.completed = ~old.completed
              /\ ~old.completed => (new.completedAt # Undefined /\ new.completedAt >= now)
              /\ old.completed => new.completedAt = Undefined
              /\ new.updatedAt = now'
              /\ pc' = "toggled" =>
                    /\ new.completed = first.completed
                    /\ (new.completedAt = Undefined) <=> (first.completedAt = Undefined)]_vars

\* C26: in Menu.updateTask an empty answer keeps the current value: after an
\* empty line for the new description the description is as before, and
\* after an empty line for the new title the title is as before.
C26_BlankKeepsValue ==
    (pc = "returned" /\ call.op = "Menu.updateTask" /\ ~Absent(call.before, call.id))
        => LET i == SetMin({k \in 1..Len(call.before) : call.before[k].id = call.id})
           IN  /\ call.args[1] = <<>> => tasks[i].title = call.before[i].title
               /\ call.args[2] = <<>> => tasks[i].description = call.before[i].description

\* the part of C26 about the title
C26_BlankKeepsTitle ==
    (pc = "returned" /\ call.op = "Menu.updateTask" /\ ~Absent(call.before, call.id))
        => LET i == SetMin({k \in 1..Len(call.before) : call.before[k].id = call.id})
           IN  Trim(call.args[1]) = <<>> => tasks[i].title = call.before[i].title

\* C28: after removeTask(id) has returned true, findTask(id) returns
\* undefined, the collection has one task fewer, and every other task is
\* still there unchanged.
C28_RemovedIsGone ==
    pc = "found" =>
        /\ call.ret = NoTask
        /\ Len(tasks) = Len(call.before) - 1
        /\ \A k \in 1..Len(call.before) :
              call.before[k].id # call.id => \E j \in 1..Len(tasks) : tasks[j] = call.before[k]

\* the same for collections in which no two tasks have the same id
C28_RemovedIsGoneDistinctIds ==
    (pc = "found" /\ \A j, k \in 1..Len(call.before) :
                        j # k => call.before[j].id # call.before[k].id) =>
        /\ call.ret = NoTask
        /\ Len(tasks) = Len(call.before) - 1
        /\ \A k \in 1..Len(call.before) :
              call.before[k].id # call.id => \E j \in 1..Len(tasks) : tasks[j] = call.before[k]

---------------------------------------------------------------------------
(* Specification SpecFile: one FileService call on a save file that is     *)
(* missing, unreadable or present, observed in `call`; here `call.before`  *)
(* is the save file as it was when the call was made.  backup first tests  *)
(* that the file exists and copies it afterwards: a deleteSaveFile of      *)
(* another caller can complete in between.                                 *)

\* titles with the characters the row format gives a meaning to
SpecialTitles == {<<SEMI>>, <<QUOTE>>, <<"a", NL, "b">>}

\* collections to save whose titles and descriptions hold such characters
SavedCollections ==
    {<<Pending(1, ti, <<"d">>)>> : ti \in SpecialTitles}
        \cup {<<Pending(1, <<SEMI, QUOTE>>, <<"d">>), Completed(2, <<"a">>, <<QUOTE>>)>>}

FileInit ==
    /\ tasks \in Collections \cup SavedCollections
    /\ nextId = SetMax(HeldIds) + 1
    /\ produced = Constructed(nextId)
    /\ now \in LastStamp(tasks)..MaxTime
    /\ file \in {NoFile, Denied} \cup SysFiles
    /\ loaded = <<>>
    /\ errors = <<>>
    /\ pc = "fs"
    /\ row = <<>>
    /\ src = NoTask
    /\ fields = <<>>
    /\ dec = NoResult
    /\ Unobserved

\* loaded = await fileService.loadTasks()
LoadCall ==
    /\ pc = "fs"
    /\ pc' = "done"
    /\ LET res == IF LoadRaises(file)
                  THEN [tasks |-> <<>>, errors |-> <<>>, nextId |-> nextId]
                  ELSE LoadTasks(file, nextId)
       IN  /\ loaded' = res.tasks
           /\ errors' = res.errors
           /\ nextId' = res.nextId
           /\ produced' = DecodedAll(produced, res.tasks)
           /\ call' = FileObserved("loadTasks", LoadRaises(file), res.tasks,
                                    ErrorCode(file), <<"readFile">>)
    /\ UNCHANGED <<tasks, now, file, row, src, fields, dec, arr, origin, shared, backups>>

\* loaded = await fileService.loadTasks() on the file saveTasks has written
Reload ==
    /\ pc = "done"
    /\ call.op = "saveTasks"
    /\ ~call.ret.raised
    /\ pc' = "reloaded"
    /\ LET res == LoadTasks(file, nextId)
       IN  /\ loaded' = res.tasks
           /\ errors' = res.errors
           /\ nextId' = res.nextId
           /\ produced' = DecodedAll(produced, res.tasks)
    /\ UNCHANGED <<tasks, now, file, row, src, fields, dec, arr, origin, shared, call,
                   backups>>

\* await fileService.deleteSaveFile(), also while a backup is under way
DeleteSaveFile ==
    /\ pc \in {"fs", "copying"}
    /\ pc' = IF pc = "fs" THEN "done" ELSE pc
    /\ file' = IF Exists(file) THEN NoFile ELSE file
    /\ call' = IF pc = "fs" THEN FileObserved("deleteSaveFile", DeleteRaises(file), <<>>,
                                              ErrorCode(file), <<"unlink">>)
               ELSE call
    /\ UNCHANGED <<nextId, tasks, now, produced, loaded, errors, row, src, fields, dec,
                   arr, origin, shared, backups>>

\* fileService.backup() up to the result of exists()
BackupExists ==
    /\ pc = "fs"
    /\ pc' = IF Exists(file) THEN "copying" ELSE "done"
    /\ call' = FileObserved("backup", FALSE, <<>>, "", <<"access">>)
    /\ UNCHANGED <<nextId, tasks, now, produced, file, loaded, errors, row, src, fields, dec,
                   arr, origin, shared, backups>>

\* fileService.backup() from new Date() on: copyFile to the path named by the time
BackupCopy ==
    /\ pc = "copying"
    /\ pc' = "done"
    /\ \E code \in CopyCodes(file) :
        /\ backups' = IF code = "" THEN backups \cup {<<ToISOString(now), file>>}
                      ELSE backups
        /\ call' = [FileObserved("backup", code # "", <<>>, code,
                                 <<"access", "copyFile">>)
                        EXCEPT !.before = call.before]
    /\ UNCHANGED <<nextId, tasks, now, produced, file, loaded, errors, row, src, fields, dec,
                   arr, origin, shared>>

FileNext ==
    \/ SaveTasksCall
    \/ LoadCall
    \/ Reload
    \/ DeleteSaveFile
    \/ BackupExists
    \/ BackupCopy

SpecFile == FileInit /\ [][FileNext]_vars

\* C20: a missing save file is not an error: loadTasks returns an empty list
\* without raising, deleteSaveFile completes without raising, and backup
\* makes no copy and completes without raising.
C20_MissingFile ==
    (pc = "done" /\ call.before = NoFile /\ call.op \in {"loadTasks", "deleteSaveFile", "backup"})
        => /\ ~call.ret.raised
           /\ call.op = "loadTasks" => (call.ret.value = <<>> /\ loaded = <<>>)
           /\ call.op = "deleteSaveFile" => file = NoFile
           /\ call.op = "backup" => backups = {}

\* backup has been called when there was no save file
C20_Witness == pc = "done" /\ call.op = "backup" /\ call.before = NoFile

\* the number of times the storage call made last was made
Attempts(calls) == Cardinality({i \in 1..Len(calls) : calls[i] = calls[Len(calls)]})

\* C21: when the storage call of saveTasks, loadTasks, deleteSaveFile or
\* backup fails with an error other than not-found, the operation raises an
\* error whose message starts with the operation's prefix, and the failed
\* call was made once.
C21_StorageError ==
    (pc = "done" /\ call.ret.code \notin {"", "ENOENT"})
        => /\ call.ret.raised
           /\ call.ret.message =
                [saveTasks |-> "Failed to save tasks: ",
                 loadTasks |-> "Failed to load tasks: ",
                 deleteSaveFile |-> "Failed to delete save file: ",
                 backup |-> "Failed to create backup: "][call.op]
           /\ Attempts(call.ret.calls) = 1

\* the copy of a backup has failed for want of space
C21_Witness ==
    pc = "done" /\ call.op = "backup" /\ call.ret.code = "ENOSPC" /\ call.ret.raised

\* the tasks ts come back from the save file: as many, in the same order,
\* with the same ids, titles, descriptions and completion state, no row error
CameBack(ts) ==
    /\ errors = <<>>
    /\ Len(loaded) = Len(ts)
    /\ \A k \in 1..Len(ts) :
        /\ loaded[k].id = ts[k].id
        /\ loaded[k].title = ts[k].title
        /\ loaded[k].description = ts[k].description
        /\ loaded[k].completed = ts[k].completed

\* C27: the text saveTasks writes for a collection, given back to loadTasks,
\* yields as many tasks, in the same order, with the same ids, titles,
\* descriptions and completion state, and no row error, whatever characters
\* the titles and descriptions contain.
C27_SaveLoadRoundTrip == pc = "reloaded" => CameBack(tasks)

\* the same for collections whose titles and descriptions have no line break
C27_RoundTripWithoutLineBreak ==
    (pc = "reloaded" /\ \A k \in 1..Len(tasks) :
                           ~Includes(tasks[k].title \o tasks[k].description, <<NL>>))
        => CameBack(tasks)

---------------------------------------------------------------------------
(* Claims about the codec, checked under SpecCodec                         *)

\* s in quotes, each of its quotes written twice
RECURSIVE Doubled(_)
Doubled(s) ==
    IF s = <<>> THEN <<>>
    ELSE (IF Head(s) = QUOTE THEN <<QUOTE, QUOTE>> ELSE <<Head(s)>>) \o Doubled(Tail(s))

InQuotes(s) == <<QUOTE>> \o Doubled(s) \o <<QUOTE>>

\* C22: the row toCsvRow produces has title and description in quotes with
\* every inner quote doubled, and parseCsvRow splits it into exactly 7 fields
\* in the order id, title, description, completed, createdAt, updatedAt,
\* completedAt, the last one empty exactly when the task has no completedAt.
C22_EncodedRow ==
    pc = "roundtrip" =>
        /\ row = Join(<<NumToString(src.id), InQuotes(src.title), InQuotes(src.description),
                        BoolToString(src.completed), ToISOString(src.createdAt),
                        ToISOString(src.updatedAt),
                        IF src.completedAt = Undefined THEN <<>>
                        ELSE ToISOString(src.completedAt)>>, <<SEMI>>)
        /\ Len(fields) = 7
        /\ fields[1] = NumToString(src.id)
        /\ fields[2] = Trim(src.title)
        /\ fields[3] = Trim(src.description)
        /\ fields[4] = BoolToString(src.completed)
        /\ fields[5] = ToISOString(src.createdAt)
        /\ fields[6] = ToISOString(src.updatedAt)
        /\ (fields[7] = <<>>) <=> (src.completedAt = Undefined)
        /\ src.completedAt # Undefined => fields[7] = ToISOString(src.completedAt)

\* a task whose title is a separator followed by a quote has been encoded
\* and its row split
C22_Witness == pc = "roundtrip" /\ src.title = <<SEMI, QUOTE>>

\* C30: every Task returned by a successful fromCsvRow can be serialized
\* again: toCsvRow on it does not raise.
C30_DecodedSerializable ==
    (pc \in {"decoded", "roundtrip"} /\ dec.ok) => ~CsvRowThrows(dec.task)

=============================================================================
